---- MODULE Spec2Model ----
(***************************************************************************)
(* Model of update_genesis.py: the genesis patcher of the cross-chain      *)
(* simulator.  The script walks GENESIS_PATHS and, for every genesis file  *)
(* that exists, appends the NEW_ACCOUNTS that have no Account record yet   *)
(* (each with a FullAccess key) and deducts the added balance from the     *)
(* first Account record of the treasury "near".                            *)
(*                                                                         *)
(* Balances are counted in units of 10^24 yocto (1 NEAR); Python integers  *)
(* are unbounded, so no width is modelled.  A decimal string of the file   *)
(* is the pair of its integer value and whether it is spelled the way      *)
(* str() spells that value ("0100" and "+7" are not).                      *)
(***************************************************************************)
EXTENDS Integers, Sequences, FiniteSets, TLC

VARIABLES files, pc, status, error, run, input, patched

vars == <<files, pc, status, error, run, input, patched>>

(***************************************************************************)
(* Bounds of the model.                                                    *)
(***************************************************************************)
\* longest records list of an input document
MaxLen == 3
\* number of times the script is invoked on the same files
MaxRuns == 3

(***************************************************************************)
(* Configuration of the script.                                            *)
(***************************************************************************)
GENESIS_PATHS ==
    << "/home/ubuntu/.near/localnet/node0/genesis.json",
       "/home/ubuntu/.near/localnet/node1/genesis.json",
       "/home/ubuntu/.near/localnet/node2/genesis.json",
       "/home/ubuntu/.near/localnet/node3/genesis.json" >>

NEW_ACCOUNTS ==
    << [id |-> "mpc-node-0.node0", pk |-> "ed25519:69CETJnEyCTaQ7B3PxEWrsMWpoufayKFhHWN15HQ8smR"],
       [id |-> "mpc-node-1.node0", pk |-> "ed25519:93pcUSau23m7imF94gny2R9c8UDvGHGmiVFKr7j4pkjP"],
       [id |-> "mpc-node-2.node0", pk |-> "ed25519:5CJ4d6byRNacX5QNaASHGXmURtWE48xARnNGWAwKRiWg"] >>

\* str(n): the canonical decimal spelling of n
str(n) == [val |-> n, canon |-> TRUE]

\* int(s): the value of a decimal string, whatever its spelling
int(s) == s.val

\* "10000000000000000000000000", 10 NEAR
AMOUNT == str(10)

Paths == {GENESIS_PATHS[i] : i \in 1..Len(GENESIS_PATHS)}

(***************************************************************************)
(* What a path can hold.                                                   *)
(***************************************************************************)
\* os.path.exists(path) is false
Missing == [kind |-> "absent"]

\* a file json.load rejects
NotJson == [kind |-> "text"]

\* a file holding a JSON object; layout tells whether its text is the one
\* json.dump(data, f, indent=2) produces
JsonFile(data, layout) == [kind |-> "json", data |-> data, layout |-> layout]

\* "{}": valid JSON without the records key
NoRecords == JsonFile([genesis_height |-> 0], "other")

IsGenesis(f) == f.kind = "json" /\ "records" \in DOMAIN f.data

IsMalformed(f) == f.kind = "text" \/ (f.kind = "json" /\ "records" \notin DOMAIN f.data)

(***************************************************************************)
(* update_genesis, the pure part.                                          *)
(***************************************************************************)
\* a scan that is never made: nothing is known to exist
existing_idsUnscanned(records) == {}

\* a scan that takes the account_id of AccessKey records too
existing_idsAnyRecord(records) ==
    { records[i].Account.account_id :
        i \in { j \in DOMAIN records : "Account" \in DOMAIN records[j] } }
    \cup { records[i].AccessKey.account_id :
        i \in { j \in DOMAIN records : "AccessKey" \in DOMAIN records[j] } }

\* the scan that builds existing_ids
existing_ids(records) ==
    { records[i].Account.account_id :
        i \in { j \in DOMAIN records : "Account" \in DOMAIN records[j] } }

\* the Account record appended for a spec
NewAccountRecord(acc) ==
    [Account |->
        [account_id |-> acc.id,
         account |-> [amount |-> AMOUNT,
                      locked |-> "0",
                      code_hash |-> "11111111111111111111111111111111",
                      storage_usage |-> 0,
                      version |-> "V1"]]]

\* an AccessKey record that takes the key of the first spec for every spec
NewAccessKeyRecordFirstKey(acc) ==
    [AccessKey |->
        [account_id |-> acc.id,
         public_key |-> NEW_ACCOUNTS[1].pk,
         access_key |-> [nonce |-> 0, permission |-> "FullAccess"]]]

\* the AccessKey record appended for a spec
NewAccessKeyRecord(acc) ==
    [AccessKey |->
        [account_id |-> acc.id,
         public_key |-> acc.pk,
         access_key |-> [nonce |-> 0, permission |-> "FullAccess"]]]

\* an iteration that counts the balance before it looks at existing_ids
AddAccountCountingSkipped(st, acc, existing) ==
    IF acc.id \in existing
    THEN [st EXCEPT !.added_balance = @ + int(AMOUNT)]
    ELSE [records |-> Append(Append(st.records, NewAccountRecord(acc)),
                             NewAccessKeyRecord(acc)),
          added_balance |-> st.added_balance + int(AMOUNT)]

\* an iteration that appends the Account record before it looks at existing_ids
AddAccountThenCheck(st, acc, existing) ==
    IF acc.id \in existing
    THEN [st EXCEPT !.records = Append(@, NewAccountRecord(acc))]
    ELSE [records |-> Append(Append(st.records, NewAccountRecord(acc)),
                             NewAccessKeyRecord(acc)),
          added_balance |-> st.added_balance + int(AMOUNT)]

\* one iteration of "for acc in NEW_ACCOUNTS"; st holds records and added_balance
AddAccount(st, acc, existing) ==
    IF acc.id \in existing
    THEN st
    ELSE [records |-> Append(Append(st.records, NewAccountRecord(acc)),
                             NewAccessKeyRecord(acc)),
          added_balance |-> st.added_balance + int(AMOUNT)]

RECURSIVE AddAccounts(_, _, _)
\* the loop over NEW_ACCOUNTS from index i on
AddAccounts(i, st, existing) ==
    IF i > Len(NEW_ACCOUNTS)
    THEN st
    ELSE AddAccounts(i + 1, AddAccount(st, NEW_ACCOUNTS[i], existing), existing)

\* is records[i] the treasury account
IsTreasury(r) == "Account" \in DOMAIN r /\ r.Account.account_id = "near"

RECURSIVE DeductEvery(_, _, _)
\* a deduction loop without the break: every "near" Account pays
DeductEvery(i, records, added_balance) ==
    IF i > Len(records)
    THEN records
    ELSE IF IsTreasury(records[i])
         THEN DeductEvery(i + 1,
                  [records EXCEPT ![i].Account.account.amount = str(int(@) - added_balance)],
                  added_balance)
         ELSE DeductEvery(i + 1, records, added_balance)

RECURSIVE Deduct(_, _, _)
\* the loop "Deduct from treasury" from index i on; stops at the first match
Deduct(i, records, added_balance) ==
    IF i > Len(records)
    THEN records
    ELSE IF IsTreasury(records[i])
         THEN [records EXCEPT ![i].Account.account.amount = str(int(@) - added_balance)]
         ELSE Deduct(i + 1, records, added_balance)

\* the document update_genesis writes for the document it loaded
Patched(data) ==
    LET records == data.records
        st == AddAccounts(1, [records |-> records, added_balance |-> 0],
                          existing_ids(records))
    IN  [data EXCEPT !.records = Deduct(1, st.records, st.added_balance)]

(***************************************************************************)
(* The script.                                                             *)
(***************************************************************************)
NoError == [path |-> "", type |-> "none"]

\* where the for loop goes after update_genesis returned
Advance ==
    /\ pc' = pc + 1
    /\ status' = IF pc = Len(GENESIS_PATHS) THEN "done" ELSE "running"

\* a skip that opens the path for writing and leaves an empty file behind
SkipMissingCreating(path) ==
    /\ files[path] = Missing
    /\ files' = [files EXCEPT ![path] = NotJson]
    /\ Advance
    /\ UNCHANGED <<error, run, input, patched>>

\* the path does not exist: report and return
SkipMissing(path) ==
    /\ files[path] = Missing
    /\ Advance
    /\ UNCHANGED <<files, error, run, input, patched>>

\* a failure after the file was opened for writing: the file is empty now
FailMalformedTruncating(path) ==
    /\ IsMalformed(files[path])
    /\ files' = [files EXCEPT ![path] = NotJson]
    /\ status' = "crashed"
    /\ error' = [path |-> path,
                 type |-> IF files[path].kind = "text" THEN "JSONDecodeError" ELSE "KeyError"]
    /\ UNCHANGED <<pc, run, input, patched>>

\* json.load or data['records'] raises; nothing catches it, the script ends
FailMalformed(path) ==
    /\ IsMalformed(files[path])
    /\ status' = "crashed"
    /\ error' = [path |-> path,
                 type |-> IF files[path].kind = "text" THEN "JSONDecodeError" ELSE "KeyError"]
    /\ UNCHANGED <<files, pc, run, input, patched>>

\* load, add the missing accounts, deduct, write back
PatchFile(path) ==
    /\ IsGenesis(files[path])
    /\ files' = [files EXCEPT ![path] = JsonFile(Patched(files[path].data), "indent2")]
    /\ patched' = [patched EXCEPT ![path] = @ + 1]
    /\ Advance
    /\ UNCHANGED <<error, run, input>>

update_genesis(path) ==
    \/ SkipMissing(path)
    \/ FailMalformed(path)
    \/ PatchFile(path)

\* for p in GENESIS_PATHS: update_genesis(p)
Main ==
    /\ status = "running"
    /\ pc <= Len(GENESIS_PATHS)
    /\ update_genesis(GENESIS_PATHS[pc])

\* the operator runs the script again on the files as they are
Rerun ==
    /\ status \in {"done", "crashed"}
    /\ run < MaxRuns
    /\ run' = run + 1
    /\ pc' = 1
    /\ status' = "running"
    /\ error' = NoError
    /\ UNCHANGED <<files, input, patched>>

(***************************************************************************)
(* Input documents.                                                        *)
(***************************************************************************)
AccountRecord(id, amount) ==
    [Account |->
        [account_id |-> id,
         account |-> [amount |-> amount,
                      locked |-> "0",
                      code_hash |-> "11111111111111111111111111111111",
                      storage_usage |-> 0,
                      version |-> "V1"]]]

TreasuryAmounts == {str(5), str(1000), [val |-> 1000, canon |-> FALSE]}

InputRecords ==
    {AccountRecord("near", a) : a \in TreasuryAmounts}
    \cup {AccountRecord(NEW_ACCOUNTS[i].id, AMOUNT) : i \in 1..Len(NEW_ACCOUNTS)}
    \cup {NewAccessKeyRecord(NEW_ACCOUNTS[1])}
    \cup {[Contract |-> [account_id |-> "near", code |-> "AGFzbQ=="]]}

SeqsUpTo(S, n) == UNION {[1..k -> S] : k \in 0..n}

GenesisFiles(n) ==
    {JsonFile([records |-> rs], l) : rs \in SeqsUpTo(InputRecords, n), l \in {"indent2", "other"}}

\* the files a freshly initialised or damaged localnet leaves behind
PlainFiles ==
    {Missing, NotJson, NoRecords,
     JsonFile([records |-> <<>>], "other"),
     JsonFile([records |-> <<AccountRecord("near", str(1000))>>], "other")}

Init ==
    /\ \/ files \in [Paths -> PlainFiles]
       \/ \E f \in GenesisFiles(MaxLen) :
             files = [p \in Paths |-> IF p = GENESIS_PATHS[1] THEN f ELSE Missing]
    /\ input = files
    /\ pc = 1
    /\ status = "running"
    /\ error = NoError
    /\ run = 1
    /\ patched = [p \in Paths |-> 0]

Next == Main \/ Rerun

Spec == Init /\ [][Next]_vars

TypeOK ==
    /\ pc \in 1..(Len(GENESIS_PATHS) + 1)
    /\ status \in {"running", "done", "crashed"}
    /\ run \in 1..MaxRuns
    /\ \A p \in Paths : files[p].kind \in {"absent", "text", "json"} /\ patched[p] \in 0..MaxRuns

(***************************************************************************)
(* Vocabulary of the properties.                                           *)
(***************************************************************************)
Records(f) == f.data.records

\* update_genesis is about to be called on path p
AtPath(p) == status = "running" /\ pc <= Len(GENESIS_PATHS) /\ GENESIS_PATHS[pc] = p

\* ... and p holds a genesis document, so the call loads and rewrites it
PatchStep(p) == AtPath(p) /\ IsGenesis(files[p])

AccountIdxs(rs, id) ==
    {i \in DOMAIN rs : "Account" \in DOMAIN rs[i] /\ rs[i].Account.account_id = id}

AccessKeyIdxs(rs, id) ==
    {i \in DOMAIN rs : "AccessKey" \in DOMAIN rs[i] /\ rs[i].AccessKey.account_id = id}

\* index of the first "near" Account record, 0 when there is none
FirstNear(rs) ==
    IF AccountIdxs(rs, "near") = {} THEN 0
    ELSE CHOOSE i \in AccountIdxs(rs, "near") : \A j \in AccountIdxs(rs, "near") : i <= j

AmountAt(rs, i) == int(rs[i].Account.account.amount)

\* the specs a run on rs adds, in NEW_ACCOUNTS order
SpecsToAdd(rs) == SelectSeq(NEW_ACCOUNTS, LAMBDA acc : AccountIdxs(rs, acc.id) = {})

RECURSIVE TotalSupply(_)
\* sum of the amounts of all Account records
TotalSupply(rs) ==
    IF rs = <<>> THEN 0
    ELSE (IF "Account" \in DOMAIN Head(rs) THEN int(Head(rs).Account.account.amount) ELSE 0)
         + TotalSupply(Tail(rs))

Max(a, b) == IF a >= b THEN a ELSE b

Node0 == GENESIS_PATHS[1]
Node1 == GENESIS_PATHS[2]

(***************************************************************************)
(* C1: a run on a document with a "near" Account leaves the first "near"   *)
(* Account's amount at its input value minus k x AMOUNT, k the number of   *)
(* specs without an Account record in the input; no floor is applied.      *)
(***************************************************************************)
C1_TreasuryDeduction ==
    [][\A p \in Paths :
          (PatchStep(p) /\ FirstNear(Records(files[p])) # 0) =>
             LET old == Records(files[p])
                 new == Records(files'[p])
                 i == FirstNear(old)
             IN  /\ FirstNear(new) = i
                 /\ AmountAt(new, i) = AmountAt(old, i) - Len(SpecsToAdd(old)) * int(AMOUNT)
                 /\ new[i].Account.account.amount.canon]_vars

\* a treasury of 5 paid for two accounts and is now at -15, one spec skipped
C1_Witness ==
    /\ patched[Node0] = 1
    /\ IsGenesis(input[Node0])
    /\ Len(SpecsToAdd(Records(input[Node0]))) = 2
    /\ FirstNear(Records(input[Node0])) # 0
    /\ AmountAt(Records(input[Node0]), FirstNear(Records(input[Node0]))) = 5
    /\ AmountAt(Records(files[Node0]), FirstNear(Records(input[Node0]))) = -15

(***************************************************************************)
(* C2: every run conserves the total supply: the sum of the amounts of all *)
(* Account records of the written document equals that of the input.       *)
(***************************************************************************)
C2_SupplyConserved ==
    [][\A p \in Paths :
          PatchStep(p) => TotalSupply(Records(files'[p])) = TotalSupply(Records(files[p]))]_vars

(***************************************************************************)
(* C3: idempotence: after n >= 2 runs the file is what one run made of     *)
(* the input, and a run after the first adds no spec, has added_balance 0  *)
(* and leaves the file (treasury amount included) as it was.               *)
(***************************************************************************)
C3_Idempotence ==
    /\ [](\A p \in Paths :
            patched[p] >= 1 => files[p] = JsonFile(Patched(input[p].data), "indent2"))
    /\ [][\A p \in Paths :
            (PatchStep(p) /\ patched[p] >= 1) =>
               /\ files'[p] = files[p]
               /\ SpecsToAdd(Records(files[p])) = <<>>
               /\ AddAccounts(1, [records |-> Records(files[p]), added_balance |-> 0],
                              existing_ids(Records(files[p]))).added_balance = 0]_vars

\* a document that got accounts and a deduction on the first run, run again
C3_Witness ==
    \E p \in Paths :
        /\ patched[p] >= 2
        /\ FirstNear(Records(input[p])) # 0
        /\ SpecsToAdd(Records(input[p])) # <<>>
        /\ Len(Records(files[p])) > Len(Records(input[p]))
        /\ files[p] # input[p]

(***************************************************************************)
(* C4 as stated: after any number of runs no two Account records of the    *)
(* output share an account_id.                                             *)
(***************************************************************************)
C4_NoSharedAccountId ==
    \A p \in Paths :
        (IsGenesis(files[p]) /\ patched[p] >= 1) =>
            \A id \in existing_ids(Records(files[p])) :
                Cardinality(AccountIdxs(Records(files[p]), id)) = 1

(***************************************************************************)
(* C4 amended: the patcher never creates a duplicate: after any number of  *)
(* runs an account_id has as many Account records as in the input, or one  *)
(* when the input had none.                                                *)
(***************************************************************************)
C4_NoDuplicateCreated ==
    \A p \in Paths :
        (IsGenesis(files[p]) /\ patched[p] >= 1) =>
            \A id \in existing_ids(Records(files[p])) :
                Cardinality(AccountIdxs(Records(files[p]), id))
                    = Max(1, Cardinality(AccountIdxs(Records(input[p]), id)))

\* two runs over a document that had one of the accounts: one skipped, two added
C4_Witness ==
    \E p \in Paths :
        /\ patched[p] >= 2
        /\ Len(SpecsToAdd(Records(input[p]))) = 2
        /\ \A i \in 1..Len(NEW_ACCOUNTS) :
              Cardinality(AccountIdxs(Records(files[p]), NEW_ACCOUNTS[i].id)) = 1

(***************************************************************************)
(* C5: a run attempts every configured path once, in order; a failure on   *)
(* one path does not keep the later paths from being processed.            *)
(***************************************************************************)
Attempted == IF status = "crashed" THEN pc ELSE pc - 1

C5_FailureIsolation ==
    status \in {"done", "crashed"} =>
        /\ Attempted = Len(GENESIS_PATHS)
        /\ \A p \in Paths : IsGenesis(input[p]) => patched[p] >= 1

(***************************************************************************)
(* C6: on a file that is not JSON or has no records key update_genesis     *)
(* raises an error for that file and writes nothing.                       *)
(***************************************************************************)
C6_NoWriteOnMalformed ==
    /\ [][\A p \in Paths :
            (AtPath(p) /\ IsMalformed(files[p])) =>
               /\ files' = files
               /\ status' = "crashed"
               /\ error'.path = p
               /\ error'.type \in {"JSONDecodeError", "KeyError"}]_vars
    /\ [](\A p \in Paths : IsMalformed(input[p]) => files[p] = input[p])

\* the script died on a "{}" file, which is still "{}"
C6_Witness ==
    \E p \in Paths :
        /\ status = "crashed"
        /\ error = [path |-> p, type |-> "KeyError"]
        /\ input[p] = NoRecords
        /\ files[p] = NoRecords

(***************************************************************************)
(* C7: on a path that does not exist update_genesis returns without error, *)
(* creates nothing, changes no file, and the loop goes on to the next path.*)
(***************************************************************************)
C7_SkipMissingFile ==
    [][\A p \in Paths :
          (AtPath(p) /\ files[p] = Missing) =>
             /\ files' = files
             /\ error' = NoError
             /\ status' # "crashed"
             /\ pc' = pc + 1]_vars

\* node0 was skipped as missing and node1 was patched after it in the same run
C7_Witness ==
    /\ files[Node0] = Missing
    /\ IsGenesis(files[Node1])
    /\ patched[Node1] = 1
    /\ run = 1
    /\ pc = 3

(***************************************************************************)
(* C8: the records a run appends are, after all input records and in       *)
(* NEW_ACCOUNTS order, one Account record per added spec, each immediately *)
(* followed by the AccessKey record of that id with the spec's public key, *)
(* FullAccess and nonce 0.                                                 *)
(***************************************************************************)
C8_Pairing ==
    [][\A p \in Paths :
          PatchStep(p) =>
             LET old == Records(files[p])
                 new == Records(files'[p])
                 add == SpecsToAdd(old)
             IN  /\ Len(new) = Len(old) + 2 * Len(add)
                 /\ \A n \in 1..Len(add) :
                       LET a == new[Len(old) + 2 * n - 1]
                           k == new[Len(old) + 2 * n]
                       IN  /\ DOMAIN a = {"Account"}
                           /\ a.Account.account_id = add[n].id
                           /\ a.Account.account.amount = AMOUNT
                           /\ DOMAIN k = {"AccessKey"}
                           /\ k.AccessKey.account_id = add[n].id
                           /\ k.AccessKey.public_key = add[n].pk
                           /\ k.AccessKey.access_key.permission = "FullAccess"
                           /\ k.AccessKey.access_key.nonce = 0]_vars

\* a run appended the pairs of the second and the third spec after three records
C8_Witness ==
    \E p \in Paths :
        /\ patched[p] = 1
        /\ Len(Records(input[p])) = 3
        /\ Len(Records(files[p])) = 7
        /\ Records(files[p])[4].Account.account_id = NEW_ACCOUNTS[2].id
        /\ Records(files[p])[7].AccessKey.public_key = NEW_ACCOUNTS[3].pk

(***************************************************************************)
(* C9: every input record stays at its index, unmodified, except that the  *)
(* amount of the first "near" Account record may change; without a "near"  *)
(* Account no input record changes.                                        *)
(***************************************************************************)
C9_Frame ==
    \A p \in Paths :
        IsGenesis(input[p]) =>
            LET old == Records(input[p])
                new == Records(files[p])
            IN  /\ IsGenesis(files[p])
                /\ Len(new) >= Len(old)
                /\ \A i \in 1..Len(old) :
                      \/ new[i] = old[i]
                      \/ /\ i = FirstNear(old)
                         /\ "Account" \in DOMAIN new[i]
                         /\ [new[i] EXCEPT !.Account.account.amount =
                                old[i].Account.account.amount] = old[i]

\* of two "near" accounts the first one paid, the second one and the
\* Contract record between them are as they were
C9_Witness ==
    \E p \in Paths :
        /\ patched[p] >= 1
        /\ Len(Records(input[p])) = 3
        /\ AccountIdxs(Records(input[p]), "near") = {1, 3}
        /\ "Contract" \in DOMAIN Records(input[p])[2]
        /\ Records(files[p])[1] # Records(input[p])[1]
        /\ Records(files[p])[2] = Records(input[p])[2]
        /\ Records(files[p])[3] = Records(input[p])[3]

(***************************************************************************)
(* C10: only the Account records of the input decide whether a spec is     *)
(* added: a spec with an Account record gets no record at all, whatever    *)
(* access keys it has; a spec without one gets its Account and AccessKey   *)
(* even when an AccessKey record of that id exists already.                *)
(***************************************************************************)
C10_AccountRecordsDecide ==
    \A p \in Paths :
        (IsGenesis(input[p]) /\ patched[p] >= 1) =>
            \A n \in 1..Len(NEW_ACCOUNTS) :
                LET id == NEW_ACCOUNTS[n].id
                    old == Records(input[p])
                    new == Records(files[p])
                    had == AccountIdxs(old, id) # {}
                IN  /\ Cardinality(AccountIdxs(new, id))
                          = IF had THEN Cardinality(AccountIdxs(old, id)) ELSE 1
                    /\ Cardinality(AccessKeyIdxs(new, id))
                          = Cardinality(AccessKeyIdxs(old, id)) + (IF had THEN 0 ELSE 1)

\* after two runs the second spec, which had an Account and no key, still has
\* no key, and the first spec, which had only a key, has two keys
C10_Witness ==
    \E p \in Paths :
        /\ patched[p] >= 2
        /\ AccountIdxs(Records(input[p]), NEW_ACCOUNTS[2].id) # {}
        /\ AccessKeyIdxs(Records(files[p]), NEW_ACCOUNTS[2].id) = {}
        /\ AccountIdxs(Records(input[p]), NEW_ACCOUNTS[1].id) = {}
        /\ Cardinality(AccessKeyIdxs(Records(input[p]), NEW_ACCOUNTS[1].id)) = 1
        /\ Cardinality(AccessKeyIdxs(Records(files[p]), NEW_ACCOUNTS[1].id)) = 2
====
